---- MODULE Spec2Model ----
(***************************************************************************)
(* Model of hw1.py: an in-memory address book (Name / Phone / Birthday     *)
(* value objects, Record, AddressBook), its command handlers wrapped by    *)
(* the input_error decorator, and the interactive command loop.            *)
(*                                                                         *)
(* Python str values are sequences of one-character strings, so that       *)
(* strip(), split(), lower(), isdigit(), len(), strptime() and strftime()  *)
(* are computed character by character.  A Python call either returns or   *)
(* raises: its outcome is a record [exc, val], exc = "None" on return.     *)
(* An Optional[T] is the empty sequence (None) or a one-element sequence.  *)
(***************************************************************************)
EXTENDS Integers, Sequences, FiniteSets, TLC

VARIABLES book, pc, last

vars == <<book, pc, last>>

(***************************************************************************)
(* Bounds of the model.                                                    *)
(***************************************************************************)
MaxRecords == 2
MaxPhones == 2
FirstYear == 2023
LastYear == 2024

(***************************************************************************)
(* Python str primitives.                                                  *)
(***************************************************************************)
AsciiDigits == <<"0", "1", "2", "3", "4", "5", "6", "7", "8", "9">>

\* characters c with c.isdigit() and not c.isdecimal(), e.g. SUPERSCRIPT TWO
SuperscriptDigits == {"^2"}

IsDecimalChar(c) == \E i \in 1..10 : AsciiDigits[i] = c

isdigit_char(c) == IsDecimalChar(c) \/ c \in SuperscriptDigits

\* str.isdigit(): non-empty and every character is a digit
isdigit(s) == Len(s) > 0 /\ \A i \in 1..Len(s) : isdigit_char(s[i])

IsSpace(c) == c = " "

NonSpaces(s) == {i \in 1..Len(s) : ~IsSpace(s[i])}

\* str.strip(): s without its leading and trailing whitespace
strip(s) ==
    IF NonSpaces(s) = {} THEN <<>>
    ELSE SubSeq(s, CHOOSE i \in NonSpaces(s) : \A j \in NonSpaces(s) : i <= j,
                   CHOOSE i \in NonSpaces(s) : \A j \in NonSpaces(s) : j <= i)

UpperLetters ==
    <<"A", "B", "C", "D", "E", "F", "G", "H", "I", "J", "K", "L", "M",
      "N", "O", "P", "Q", "R", "S", "T", "U", "V", "W", "X", "Y", "Z">>
LowerLetters ==
    <<"a", "b", "c", "d", "e", "f", "g", "h", "i", "j", "k", "l", "m",
      "n", "o", "p", "q", "r", "s", "t", "u", "v", "w", "x", "y", "z">>

lower_char(c) ==
    IF \E i \in 1..26 : UpperLetters[i] = c
    THEN LowerLetters[CHOOSE i \in 1..26 : UpperLetters[i] = c]
    ELSE c

\* str.lower()
lower(s) == [i \in 1..Len(s) |-> lower_char(s[i])]

\* the indices at which a run of non-whitespace characters of s starts
TokenStarts(s) ==
    {i \in 1..Len(s) : ~IsSpace(s[i]) /\ (i = 1 \/ IsSpace(s[i - 1]))}

\* the index at which the run of non-whitespace characters starting at i ends
TokenEnd(s, i) ==
    CHOOSE j \in i..Len(s) :
        /\ j = Len(s) \/ IsSpace(s[j + 1])
        /\ \A k \in i..j : ~IsSpace(s[k])

\* the start of the n-th run
NthStart(s, n) ==
    CHOOSE i \in TokenStarts(s) : Cardinality({j \in TokenStarts(s) : j < i}) = n - 1

\* str.split(): the maximal runs of non-whitespace characters, in order
split(s) ==
    [n \in 1..Cardinality(TokenStarts(s)) |->
        SubSeq(s, NthStart(s, n), TokenEnd(s, NthStart(s, n)))]

\* first index >= i of character c in s, or Len(s) + 1
RECURSIVE IndexOf(_, _, _)
IndexOf(s, c, i) == IF i > Len(s) \/ s[i] = c THEN i ELSE IndexOf(s, c, i + 1)

DigitValue(c) == (CHOOSE i \in 1..10 : AsciiDigits[i] = c) - 1

\* int() of the first n characters of a string of ASCII decimal digits
RECURSIVE ToIntUpTo(_, _)
ToIntUpTo(s, n) ==
    IF n = 0 THEN 0 ELSE 10 * ToIntUpTo(s, n - 1) + DigitValue(s[n])

ToInt(s) == ToIntUpTo(s, Len(s))

AllDecimal(s) == \A i \in 1..Len(s) : IsDecimalChar(s[i])

\* n rendered in exactly w decimal digits, zero padded (n < 10^w)
RECURSIVE ZeroPad(_, _)
ZeroPad(n, w) ==
    IF w = 0 THEN <<>> ELSE ZeroPad(n \div 10, w - 1) \o <<AsciiDigits[(n % 10) + 1]>>

(***************************************************************************)
(* datetime.date: proleptic Gregorian calendar, as [y, m, d].              *)
(***************************************************************************)
IsLeap(y) == y % 4 = 0 /\ (y % 100 # 0 \/ y % 400 = 0)

DaysInMonth(y, m) ==
    IF m = 2 THEN (IF IsLeap(y) THEN 29 ELSE 28)
    ELSE IF m \in {4, 6, 9, 11} THEN 30 ELSE 31

\* the arguments date(y, m, d) accepts
ValidDate(y, m, d) ==
    /\ y \in 1..9999
    /\ m \in 1..12
    /\ d >= 1
    /\ d <= DaysInMonth(y, m)

MkDate(y, m, d) == [y |-> y, m |-> m, d |-> d]

DaysBeforeYear(y) ==
    LET p == y - 1 IN p * 365 + (p \div 4) - (p \div 100) + (p \div 400)

RECURSIVE DaysBeforeMonth(_, _)
DaysBeforeMonth(y, m) ==
    IF m = 1 THEN 0 ELSE DaysBeforeMonth(y, m - 1) + DaysInMonth(y, m - 1)

\* date.toordinal(): 1 for 0001-01-01
toordinal(dt) == DaysBeforeYear(dt.y) + DaysBeforeMonth(dt.y, dt.m) + dt.d

\* date.weekday(): Monday = 0 .. Sunday = 6
weekday(dt) == (toordinal(dt) + 6) % 7

\* date < date
DateLess(a, b) ==
    \/ a.y < b.y
    \/ a.y = b.y /\ a.m < b.m
    \/ a.y = b.y /\ a.m = b.m /\ a.d < b.d

\* (a - b).days
DaysBetween(a, b) == toordinal(a) - toordinal(b)

NextDay(dt) ==
    IF dt.d < DaysInMonth(dt.y, dt.m) THEN MkDate(dt.y, dt.m, dt.d + 1)
    ELSE IF dt.m < 12 THEN MkDate(dt.y, dt.m + 1, 1)
    ELSE MkDate(dt.y + 1, 1, 1)

\* date + timedelta(days = n), n >= 0
RECURSIVE AddDays(_, _)
AddDays(dt, n) == IF n = 0 THEN dt ELSE AddDays(NextDay(dt), n - 1)

\* outcome of a call: returned value, or the class of the raised exception
Return(v) == [exc |-> "None", val |-> v]
Raise(e) == [exc |-> e, val |-> <<>>]

\* date.replace(year = y): raises ValueError when the day does not exist
replace_year(dt, y) ==
    IF ValidDate(y, dt.m, dt.d) THEN Return(MkDate(y, dt.m, dt.d))
    ELSE Raise("ValueError")

\* date.strftime("%Y-%m-%d")
strftime_iso(dt) ==
    ZeroPad(dt.y, 4) \o <<"-">> \o ZeroPad(dt.m, 2) \o <<"-">> \o ZeroPad(dt.d, 2)

\* date.strftime("%d.%m.%Y")
strftime_dmy(dt) ==
    ZeroPad(dt.d, 2) \o <<".">> \o ZeroPad(dt.m, 2) \o <<".">> \o ZeroPad(dt.y, 4)

\* datetime.strptime(s, "%d.%m.%Y").date(): day and month of one or two
\* digits, a four-digit year, separated by dots, naming an existing day
strptime_dmy(s) ==
    LET p1 == IndexOf(s, ".", 1)
        p2 == IndexOf(s, ".", p1 + 1)
        ds == SubSeq(s, 1, p1 - 1)
        ms == SubSeq(s, p1 + 1, p2 - 1)
        ys == SubSeq(s, p2 + 1, Len(s))
    IN  IF /\ p1 <= Len(s)
           /\ p2 <= Len(s)
           /\ Len(ds) \in 1..2 /\ AllDecimal(ds) /\ ToInt(ds) \in 1..31
           /\ Len(ms) \in 1..2 /\ AllDecimal(ms) /\ ToInt(ms) \in 1..12
           /\ Len(ys) = 4 /\ AllDecimal(ys)
           /\ ValidDate(ToInt(ys), ToInt(ms), ToInt(ds))
        THEN Return(MkDate(ToInt(ys), ToInt(ms), ToInt(ds)))
        ELSE Raise("ValueError")

(***************************************************************************)
(* Validated value types.  Each constructor returns the stored value or    *)
(* raises ValueError.                                                      *)
(***************************************************************************)
\* Name.__init__
Name(value) ==
    LET name == strip(value) IN
    IF name = <<>> THEN Raise("ValueError") ELSE Return(name)

\* Phone.__init__
Phone(value) ==
    LET digits == strip(value) IN
    IF ~isdigit(digits) \/ Len(digits) # 10 THEN Raise("ValueError")
    ELSE Return(digits)

\* Birthday.__init__
Birthday(value) ==
    LET parsed == strptime_dmy(strip(value)) IN
    IF parsed.exc # "None" THEN Raise("ValueError") ELSE Return(parsed.val)

(***************************************************************************)
(* Record.  A method's outcome is [exc, rec]: the exception it raised and  *)
(* the record as the call left it.                                         *)
(***************************************************************************)
MkRecord(n, ps, b) == [name |-> n, phones |-> ps, birthday |-> b]

\* Record.__init__
Record(name) ==
    LET n == Name(name) IN
    IF n.exc # "None" THEN Raise(n.exc) ELSE Return(MkRecord(n.val, <<>>, <<>>))

RecOutcome(e, r) == [exc |-> e, rec |-> r]

\* Record.edit_birthday
edit_birthday(rec, birthday_str) ==
    LET b == Birthday(birthday_str) IN
    IF b.exc # "None" THEN RecOutcome(b.exc, rec)
    ELSE RecOutcome("None", [rec EXCEPT !.birthday = <<b.val>>])

\* Record.remove_birthday
remove_birthday(rec) == RecOutcome("None", [rec EXCEPT !.birthday = <<>>])

\* add_phone appending the text before validating it
add_phone_AppendFirst(rec, phone_str) ==
    LET phone == Phone(phone_str) IN
    IF phone.exc # "None"
    THEN RecOutcome(phone.exc, [rec EXCEPT !.phones = Append(@, phone_str)])
    ELSE RecOutcome("None", [rec EXCEPT !.phones = Append(@, phone.val)])

\* Record.add_phone
add_phone(rec, phone_str) ==
    LET phone == Phone(phone_str) IN
    IF phone.exc # "None" THEN RecOutcome(phone.exc, rec)
    ELSE RecOutcome("None", [rec EXCEPT !.phones = Append(@, phone.val)])

\* index of the first phone equal to phone_str, 0 when there is none
FirstPhone(rec, phone_str) ==
    IF \E i \in 1..Len(rec.phones) : rec.phones[i] = phone_str
    THEN CHOOSE i \in 1..Len(rec.phones) :
            /\ rec.phones[i] = phone_str
            /\ \A j \in 1..(i - 1) : rec.phones[j] # phone_str
    ELSE 0

RemoveAt(s, i) == SubSeq(s, 1, i - 1) \o SubSeq(s, i + 1, Len(s))

\* Record.remove_phone
remove_phone(rec, phone_str) ==
    LET i == FirstPhone(rec, phone_str) IN
    IF i = 0 THEN RecOutcome("ValueError", rec)
    ELSE RecOutcome("None", [rec EXCEPT !.phones = RemoveAt(@, i)])

\* Record.edit_phone
edit_phone(rec, old_phone, new_phone) ==
    LET i == FirstPhone(rec, old_phone) IN
    IF i = 0 THEN RecOutcome("ValueError", rec)
    ELSE LET new_ph == Phone(new_phone) IN
         IF new_ph.exc # "None" THEN RecOutcome(new_ph.exc, rec)
         ELSE RecOutcome("None", [rec EXCEPT !.phones[i] = new_ph.val])

\* Record.find_phone
find_phone(rec, phone_str) ==
    LET i == FirstPhone(rec, phone_str) IN
    IF i = 0 THEN <<>> ELSE <<rec.phones[i]>>

(***************************************************************************)
(* AddressBook: a dict in insertion order, modelled as the sequence of its *)
(* items [key, rec].                                                       *)
(***************************************************************************)
Keys(b) == {b[i].key : i \in 1..Len(b)}

\* position of key k in b, 0 when k is not a key
KeyIndex(b, k) ==
    IF k \in Keys(b) THEN CHOOSE i \in 1..Len(b) : b[i].key = k ELSE 0

\* self.data[k] = rec: a present key keeps its position
SetItem(b, k, rec) ==
    IF k \in Keys(b)
    THEN [i \in 1..Len(b) |-> IF b[i].key = k THEN [key |-> k, rec |-> rec] ELSE b[i]]
    ELSE Append(b, [key |-> k, rec |-> rec])

\* add_record inserting a new item whether or not the name is a key
add_record_Append(b, record) == Append(b, [key |-> record.name, rec |-> record])

\* AddressBook.add_record
add_record(b, record) == SetItem(b, record.name, record)

\* AddressBook.find
find(b, name) ==
    LET i == KeyIndex(b, name) IN
    IF i = 0 THEN <<>> ELSE <<b[i].rec>>

\* delete removing the oldest entry instead of the named one
delete_First(b, name) ==
    LET i == KeyIndex(b, name) IN
    IF i # 0 THEN [ret |-> TRUE, book |-> RemoveAt(b, 1)]
    ELSE [ret |-> FALSE, book |-> b]

\* AddressBook.delete: [ret, book]
delete(b, name) ==
    LET i == KeyIndex(b, name) IN
    IF i # 0 THEN [ret |-> TRUE, book |-> RemoveAt(b, i)]
    ELSE [ret |-> FALSE, book |-> b]

\* Congratulate with the shift computed as 6 - weekday()
Congratulate_ShiftSix(this_year_bday) ==
    IF weekday(this_year_bday) >= 5
    THEN AddDays(this_year_bday, 6 - weekday(this_year_bday))
    ELSE this_year_bday

\* the congratulation day of a birthday occurrence: a weekend day is
\* shifted by 7 - weekday() days
Congratulate(this_year_bday) ==
    IF weekday(this_year_bday) >= 5
    THEN AddDays(this_year_bday, 7 - weekday(this_year_bday))
    ELSE this_year_bday

\* one record's step of the loop of get_upcoming_birthdays: the entry it
\* appends (at most one), or the exception replace() raises
UpcomingEntry(record, today) ==
    IF record.birthday = <<>> THEN Return(<<>>)
    ELSE
      LET bday == record.birthday[1]
          first == replace_year(bday, today.y)
      IN  IF first.exc # "None" THEN Raise(first.exc)
          ELSE
            LET second == IF DateLess(first.val, today)
                          THEN replace_year(first.val, today.y + 1)
                          ELSE first
            IN  IF second.exc # "None" THEN Raise(second.exc)
                ELSE
                  LET this_year_bday == second.val
                      delta_days == DaysBetween(this_year_bday, today)
                      congratulate_day == Congratulate(this_year_bday)
                  IN  IF 0 <= delta_days /\ delta_days <= 7
                      THEN Return(<<[name |-> record.name,
                                     birthday |-> strftime_iso(congratulate_day)]>>)
                      ELSE Return(<<>>)

RECURSIVE UpcomingFrom(_, _, _, _)
UpcomingFrom(b, today, i, upcoming) ==
    IF i > Len(b) THEN Return(upcoming)
    ELSE LET e == UpcomingEntry(b[i].rec, today) IN
         IF e.exc # "None" THEN Raise(e.exc)
         ELSE UpcomingFrom(b, today, i + 1, upcoming \o e.val)

\* AddressBook.get_upcoming_birthdays, today = date.today()
get_upcoming_birthdays(b, today) == UpcomingFrom(b, today, 1, <<>>)

(***************************************************************************)
(* Command handlers.  The text a handler returns is [fmt, parts]: the      *)
(* literal of the message and the values formatted into it.  A handler's   *)
(* outcome is [exc, val, book]: the exception that left it, the text it    *)
(* returned and the address book as the call left it.                      *)
(***************************************************************************)
Text(fmt, parts) == [fmt |-> fmt, parts |-> parts]

NoText == Text("", <<>>)

HReturn(text, b) == [exc |-> "None", val |-> text, book |-> b]
HRaise(e, b) == [exc |-> e, val |-> NoText, book |-> b]

NoPhones == <<"N", "o", " ", "p", "h", "o", "n", "e", "s">>
NoneText == <<"N", "o", "n", "e">>

\* the phones of a record as the handlers list them
PhonesText(rec) == IF rec.phones # <<>> THEN rec.phones ELSE <<NoPhones>>

\* input_error with the messages of ValueError and IndexError exchanged
input_error_SwappedMessages(out) ==
    CASE out.exc = "None" -> out
      [] out.exc = "KeyError" ->
            HReturn(Text("Contact not found. Please check the name.", <<>>), out.book)
      [] out.exc = "ValueError" ->
            HReturn(Text("Enter user name.", <<>>), out.book)
      [] out.exc = "IndexError" ->
            HReturn(Text("Give me name and phone please.", <<>>), out.book)
      [] OTHER ->
            HReturn(Text("Unexpected error: {e}", <<>>), out.book)

\* input_error catching KeyError and IndexError only
input_error_NarrowExcept(out) ==
    CASE out.exc = "KeyError" ->
            HReturn(Text("Contact not found. Please check the name.", <<>>), out.book)
      [] out.exc = "IndexError" ->
            HReturn(Text("Enter user name.", <<>>), out.book)
      [] OTHER -> out

\* input_error.wrapper: every exception becomes a returned message
input_error(out) ==
    CASE out.exc = "None" -> out
      [] out.exc = "KeyError" ->
            HReturn(Text("Contact not found. Please check the name.", <<>>), out.book)
      [] out.exc = "ValueError" ->
            HReturn(Text("Give me name and phone please.", <<>>), out.book)
      [] out.exc = "IndexError" ->
            HReturn(Text("Enter user name.", <<>>), out.book)
      [] OTHER ->
            HReturn(Text("Unexpected error: {e}", <<>>), out.book)

\* body of add_contact
add_contact_body(args, contacts) ==
    IF Len(args) # 2 THEN HRaise("ValueError", contacts)
    ELSE
      LET name == args[1]
          phone == args[2]
          existing_record == find(contacts, name)
      IN  IF existing_record # <<>>
          THEN LET r == add_phone(existing_record[1], phone)
                   b == SetItem(contacts, name, r.rec)
               IN  IF r.exc # "None" THEN HRaise(r.exc, b)
                   ELSE HReturn(Text("Added phone '{phone}' to existing contact '{name}'.",
                                     <<phone, name>>), b)
          ELSE LET record == Record(name) IN
               IF record.exc # "None" THEN HRaise(record.exc, contacts)
               ELSE LET r == add_phone(record.val, phone) IN
                    IF r.exc # "None" THEN HRaise(r.exc, contacts)
                    ELSE HReturn(Text("Contact '{name}' with phone '{phone}' added.",
                                      <<name, phone>>),
                                 add_record(contacts, r.rec))

add_contact(args, contacts) == input_error(add_contact_body(args, contacts))

\* body of add_birthday
add_birthday_body(args, contacts) ==
    IF Len(args) # 2 THEN HRaise("ValueError", contacts)
    ELSE
      LET name == args[1]
          birthday == args[2]
          existing_record == find(contacts, name)
      IN  IF existing_record = <<>> THEN HRaise("KeyError", contacts)
          ELSE LET r == edit_birthday(existing_record[1], birthday)
                   b == SetItem(contacts, name, r.rec)
               IN  IF r.exc # "None" THEN HRaise(r.exc, b)
                   ELSE HReturn(Text("Added birthday '{birthday}' to existing contact '{name}'.",
                                     <<birthday, name>>), b)

add_birthday(args, contacts) == input_error(add_birthday_body(args, contacts))

\* body of show_birthday
show_birthday_body(args, contacts) ==
    IF Len(args) = 0 THEN HRaise("IndexError", contacts)
    ELSE
      LET name == args[1]
          existing_record == find(contacts, name)
      IN  IF existing_record = <<>> THEN HRaise("KeyError", contacts)
          ELSE LET b == existing_record[1].birthday IN
               HReturn(Text("{name}: {existing_record.birthday}.",
                            <<name, IF b = <<>> THEN NoneText ELSE strftime_dmy(b[1])>>),
                       contacts)

show_birthday(args, contacts) == input_error(show_birthday_body(args, contacts))

\* the name and the date of each entry, in order
BirthdayLines(upcoming) ==
    [i \in 1..(2 * Len(upcoming)) |->
        IF i % 2 = 1 THEN upcoming[(i + 1) \div 2].name
        ELSE upcoming[i \div 2].birthday]

\* body of birthdays, today = date.today()
birthdays_body(args, contacts, today) ==
    LET upcoming == get_upcoming_birthdays(contacts, today) IN
    IF upcoming.exc # "None" THEN HRaise(upcoming.exc, contacts)
    ELSE HReturn(Text("Upcoming birthdays (next 7 days):", BirthdayLines(upcoming.val)),
                 contacts)

birthdays(args, contacts, today) == input_error(birthdays_body(args, contacts, today))

\* body of change_contact
change_contact_body(args, contacts) ==
    IF Len(args) # 3 THEN HRaise("ValueError", contacts)
    ELSE
      LET name == args[1]
          old_phone == args[2]
          new_phone == args[3]
          record == find(contacts, name)
      IN  IF record = <<>> THEN HRaise("KeyError", contacts)
          ELSE LET r == edit_phone(record[1], old_phone, new_phone)
                   b == SetItem(contacts, name, r.rec)
               IN  IF r.exc # "None" THEN HRaise(r.exc, b)
                   ELSE HReturn(Text("Contact '{name}': phone '{old_phone}' changed to '{new_phone}'.",
                                     <<name, old_phone, new_phone>>), b)

change_contact(args, contacts) == input_error(change_contact_body(args, contacts))

\* body of show_phone
show_phone_body(args, contacts) ==
    IF Len(args) = 0 THEN HRaise("IndexError", contacts)
    ELSE
      LET name == args[1]
          record == find(contacts, name)
      IN  IF record = <<>> THEN HRaise("KeyError", contacts)
          ELSE HReturn(Text("{name}: {phones}", <<name>> \o PhonesText(record[1])), contacts)

show_phone(args, contacts) == input_error(show_phone_body(args, contacts))

RECURSIVE AllLines(_)
AllLines(b) ==
    IF b = <<>> THEN <<>>
    ELSE <<Head(b).rec.name>> \o PhonesText(Head(b).rec) \o AllLines(Tail(b))

\* body of show_all
show_all_body(args, contacts) ==
    IF contacts = <<>> THEN HReturn(Text("No contacts saved.", <<>>), contacts)
    ELSE HReturn(Text("{record.name.value}: phones: {phones}", AllLines(contacts)), contacts)

show_all(args, contacts) == input_error(show_all_body(args, contacts))

\* parse_input: [cmd, args]
parse_input(user_input) ==
    LET parts == split(strip(user_input)) IN
    IF parts = <<>> THEN [cmd |-> <<>>, args |-> <<>>]
    ELSE [cmd |-> lower(parts[1]), args |-> Tail(parts)]

(***************************************************************************)
(* Inputs.                                                                 *)
(***************************************************************************)
Ann == <<"A", "n", "n">>
Bob == <<"B", "o", "b">>
BobPadded == <<" ", "B", "o", "b">>
Blank == <<" ">>

P1 == <<"1", "2", "3", "4", "5", "6", "7", "8", "9", "0">>
P1Padded == <<" ", "1", "2", "3", "4", "5", "6", "7", "8", "9", "0">>
SP == <<"^2", "^2", "^2", "^2", "^2", "^2", "^2", "^2", "^2", "^2">>
Short == <<"1", "2", "3">>
Letter == <<"1", "2", "3", "4", "5", "6", "7", "8", "9", "x">>
Eleven == <<"1", "2", "3", "4", "5", "6", "7", "8", "9", "0", "1">>

B1 == <<"1", "2", ".", "0", "6", ".", "1", "9", "9", "0">>
BLeap == <<"2", "9", ".", "0", "2", ".", "2", "0", "0", "0">>
BBadDay == <<"3", "1", ".", "0", "2", ".", "1", "9", "9", "0">>
BIso == <<"1", "9", "9", "0", "-", "0", "6", "-", "1", "2">>

NameTexts == {Ann, Bob, BobPadded, Blank}
PhoneTexts == {P1, P1Padded, SP, Short, Letter}
BirthdayTexts == {B1, BLeap, BBadDay, BIso}

\* the records a caller can build with Record(), add_phone and edit_birthday
NewRecords ==
    {MkRecord(Name(n).val, ps, b) :
        n \in {x \in NameTexts : Name(x).exc = "None"},
        ps \in {<<>>, <<Phone(P1).val>>, <<Phone(SP).val>>, <<Phone(P1).val, Phone(SP).val>>},
        b \in {<<>>} \cup {<<Birthday(t).val>> :
                              t \in {x \in BirthdayTexts : Birthday(x).exc = "None"}}}

\* values of date.today() when a handler is called directly
ApiTodays == {MkDate(2023, 6, 10), MkDate(2024, 2, 25)}

AddArgs ==
    {<<>>, <<Ann>>, <<Ann, P1, P1>>}
        \cup {<<n, p>> : n \in NameTexts, p \in PhoneTexts}

ChangeArgs ==
    {<<>>, <<Ann, P1>>, <<Ann, P1, SP, P1>>}
        \cup {<<n, o, p>> : n \in {Ann, Bob, Blank}, o \in {P1, SP, P1Padded}, p \in PhoneTexts}

AddBirthdayArgs ==
    {<<>>, <<Ann>>, <<Ann, B1, B1>>}
        \cup {<<n, t>> : n \in {Ann, Bob, Blank}, t \in BirthdayTexts}

NameArgs == {<<>>, <<Ann>>, <<Bob>>, <<Ann, Bob>>, <<Bob, Ann>>}

NoArgs == {<<>>, <<Ann>>}

(***************************************************************************)
(* State.  book is the AddressBook; pc is the position of the interactive  *)
(* loop; last records the latest call: its name, its arguments, the book   *)
(* before it, the exception that left it, what it returned and the value   *)
(* of date.today() it read.                                                *)
(***************************************************************************)
Last(op, args, before, exc, ret, today) ==
    [op |-> op, args |-> args, before |-> before, exc |-> exc, ret |-> ret,
     today |-> today]

WithinBounds(b) ==
    /\ Len(b) <= MaxRecords
    /\ \A i \in 1..Len(b) : Len(b[i].rec.phones) <= MaxPhones

NoCall == Last("none", <<>>, <<>>, "None", <<>>, <<>>)

\* The library driven by a caller, one call per statement: pc is "ready"
\* before a statement and "returned" while the call's outcome is at hand.
Init ==
    /\ book = <<>>
    /\ pc = "ready"
    /\ last = NoCall

Ready == pc = "ready"

Called == pc' = "returned"

\* the caller goes on to its next statement
Proceed ==
    /\ pc = "returned"
    /\ pc' = "ready"
    /\ last' = NoCall
    /\ UNCHANGED book

\* Phone(s)
CallPhone ==
    /\ Ready
    /\ \E s \in PhoneTexts \cup {Eleven} :
           LET r == Phone(s) IN
           /\ last' = Last("Phone", <<s>>, book, r.exc, r.val, <<>>)
           /\ Called
           /\ UNCHANGED book

\* book.add_record(record)
CallAddRecord ==
    /\ Ready
    /\ \E record \in NewRecords :
           /\ book' = add_record(book, record)
           /\ WithinBounds(book')
           /\ last' = Last("add_record", <<record.name>>, book, "None", <<record>>, <<>>)
           /\ Called

\* book.delete(name)
CallDelete ==
    /\ Ready
    /\ \E name \in NameTexts :
           LET r == delete(book, name) IN
           /\ book' = r.book
           /\ last' = Last("delete", <<name>>, book, "None", r.ret, <<>>)
           /\ Called

\* book.find(name)
CallFind ==
    /\ Ready
    /\ \E name \in NameTexts :
           /\ last' = Last("find", <<name>>, book, "None", find(book, name), <<>>)
           /\ Called
           /\ UNCHANGED book

\* a method of the record stored in the book under key: the record is
\* mutated in place, whether the method returns or raises
RecordCall(op, key, margs, r) ==
    /\ book' = SetItem(book, key, r.rec)
    /\ WithinBounds(book')
    /\ last' = Last(op, <<key>> \o margs, book, r.exc, <<>>, <<>>)
    /\ Called

CallAddPhone ==
    /\ Ready
    /\ \E i \in 1..Len(book), s \in PhoneTexts :
           RecordCall("add_phone", book[i].key, <<s>>, add_phone(book[i].rec, s))

CallRemovePhone ==
    /\ Ready
    /\ \E i \in 1..Len(book), s \in {P1, SP, P1Padded} :
           RecordCall("remove_phone", book[i].key, <<s>>, remove_phone(book[i].rec, s))

CallEditPhone ==
    /\ Ready
    /\ \E i \in 1..Len(book), old \in {P1, SP, P1Padded}, new \in PhoneTexts :
           RecordCall("edit_phone", book[i].key, <<old, new>>,
                      edit_phone(book[i].rec, old, new))

CallEditBirthday ==
    /\ Ready
    /\ \E i \in 1..Len(book), t \in BirthdayTexts :
           RecordCall("edit_birthday", book[i].key, <<t>>, edit_birthday(book[i].rec, t))

CallRemoveBirthday ==
    /\ Ready
    /\ \E i \in 1..Len(book) :
           RecordCall("remove_birthday", book[i].key, <<>>, remove_birthday(book[i].rec))

\* a command handler called with (args, book)
HandlerCall(op, args, out, today) ==
    /\ book' = out.book
    /\ WithinBounds(book')
    /\ last' = Last(op, args, book, out.exc, out.val, today)
    /\ Called

CallAddContact ==
    /\ Ready
    /\ \E args \in AddArgs : HandlerCall("add_contact", args, add_contact(args, book), <<>>)

CallChangeContact ==
    /\ Ready
    /\ \E args \in ChangeArgs :
           HandlerCall("change_contact", args, change_contact(args, book), <<>>)

CallAddBirthday ==
    /\ Ready
    /\ \E args \in AddBirthdayArgs :
           HandlerCall("add_birthday", args, add_birthday(args, book), <<>>)

CallShowPhone ==
    /\ Ready
    /\ \E args \in NameArgs : HandlerCall("show_phone", args, show_phone(args, book), <<>>)

CallShowBirthday ==
    /\ Ready
    /\ \E args \in NameArgs :
           HandlerCall("show_birthday", args, show_birthday(args, book), <<>>)

CallShowAll ==
    /\ Ready
    /\ \E args \in NoArgs : HandlerCall("show_all", args, show_all(args, book), <<>>)

CallBirthdays ==
    /\ Ready
    /\ \E args \in NoArgs, today \in ApiTodays :
           HandlerCall("birthdays", args, birthdays(args, book, today), <<today>>)

Next ==
    \/ CallPhone
    \/ CallAddRecord
    \/ CallDelete
    \/ CallFind
    \/ CallAddPhone
    \/ CallRemovePhone
    \/ CallEditPhone
    \/ CallEditBirthday
    \/ CallRemoveBirthday
    \/ CallAddContact
    \/ CallChangeContact
    \/ CallAddBirthday
    \/ CallShowPhone
    \/ CallShowBirthday
    \/ CallShowAll
    \/ CallBirthdays
    \/ Proceed

Spec == Init /\ [][Next]_vars

(***************************************************************************)
(* The upcoming-birthdays query as a function of the book and of today.    *)
(***************************************************************************)
Cid == <<"C", "i", "d">>
BSat == <<"1", "5", ".", "0", "6", ".", "1", "9", "8", "5">>
BSun == <<"1", "6", ".", "0", "6", ".", "1", "9", "9", "1">>
BNewYearsEve == <<"3", "1", ".", "1", "2", ".", "1", "9", "9", "0">>
BJan == <<"0", "2", ".", "0", "1", ".", "1", "9", "9", "2">>

QueryNames == {Ann, Bob, Cid}
QueryBirthdayTexts == {BLeap, BSat, BSun, BNewYearsEve, BJan}

\* records with a name and at most a birthday
QueryRecords ==
    {MkRecord(Name(n).val, <<>>, b) :
        n \in QueryNames,
        b \in {<<>>} \cup {<<Birthday(t).val>> : t \in QueryBirthdayTexts}}

\* the books that at most k calls of add_record build
RECURSIVE BooksUpTo(_)
BooksUpTo(k) ==
    IF k = 0 THEN {<<>>}
    ELSE LET S == BooksUpTo(k - 1) IN
         S \cup {add_record(b, r) : b \in S, r \in QueryRecords}

\* the values of date.today()
Days ==
    {MkDate(y, m, d) : y \in FirstYear..LastYear, m \in 1..12, d \in 1..31} \cap
    {dt \in [y : FirstYear..LastYear, m : 1..12, d : 1..31] : ValidDate(dt.y, dt.m, dt.d)}

InitQuery ==
    /\ book \in BooksUpTo(MaxRecords)
    /\ pc = "ready"
    /\ last = NoCall

\* book.get_upcoming_birthdays()
CallUpcoming ==
    /\ Ready
    /\ \E today \in Days :
           LET r == get_upcoming_birthdays(book, today) IN
           /\ last' = Last("get_upcoming_birthdays", <<>>, book, r.exc, r.val, <<today>>)
           /\ Called
           /\ UNCHANGED book

NextQuery == CallUpcoming

SpecQuery == InitQuery /\ [][NextQuery]_vars

(***************************************************************************)
(* The interactive loop of __main__.  pc is "running" while the loop       *)
(* awaits a command, "exited" after the break, and "crashed" when an       *)
(* exception leaves the loop.                                              *)
(***************************************************************************)
CmdAdd == <<"a", "d", "d">>
CmdChange == <<"c", "h", "a", "n", "g", "e">>
CmdPhone == <<"p", "h", "o", "n", "e">>
CmdAll == <<"a", "l", "l">>
CmdAddBirthday == <<"a", "d", "d", "-", "b", "i", "r", "t", "h", "d", "a", "y">>
CmdShowBirthday == <<"s", "h", "o", "w", "-", "b", "i", "r", "t", "h", "d", "a", "y">>
CmdBirthdays == <<"b", "i", "r", "t", "h", "d", "a", "y", "s">>
CmdHello == <<"h", "e", "l", "l", "o">>
CmdHelp == <<"h", "e", "l", "p">>
CmdExit == <<"e", "x", "i", "t">>
CmdClose == <<"c", "l", "o", "s", "e">>
CmdGoodbye == <<"g", "o", "o", "d", "b", "y", "e">>

Sp == <<" ">>

\* the lines typed at the prompt
Lines ==
    {CmdAdd \o Sp \o Ann \o Sp \o P1,
     Sp \o Sp \o <<"A", "D", "D">> \o Sp \o Sp \o Ann \o Sp \o P1 \o Sp,
     CmdAdd \o Sp \o Bob \o Sp \o SP,
     CmdAdd \o Sp \o Ann \o Sp \o SP,
     CmdAdd \o Sp \o Bob \o Sp \o Short,
     CmdAdd \o Sp \o Ann,
     CmdChange \o Sp \o Ann \o Sp \o P1 \o Sp \o SP,
     CmdChange \o Sp \o Ann \o Sp \o P1 \o Sp \o Short,
     CmdChange \o Sp \o Ann \o Sp \o Short \o Sp \o P1,
     CmdChange \o Sp \o Ann \o Sp \o P1,
     CmdPhone \o Sp \o Ann,
     CmdPhone,
     CmdAll,
     CmdAddBirthday \o Sp \o Ann \o Sp \o B1,
     CmdAddBirthday \o Sp \o Bob \o Sp \o BLeap,
     CmdAddBirthday \o Sp \o Ann \o Sp \o BBadDay,
     CmdShowBirthday \o Sp \o Ann,
     CmdShowBirthday,
     CmdBirthdays,
     CmdHello,
     CmdHelp,
     <<>>,
     Sp \o Sp,
     CmdExit,
     <<"E", "x", "i", "t">>,
     CmdClose,
     CmdGoodbye,
     <<"g", "o", "o", "d">> \o Sp \o <<"b", "y", "e">>,
     <<"f", "o", "o">>}

ExitCommands == {CmdExit, CmdClose, CmdGoodbye}

\* the command_handlers table
HandlerCommands ==
    {CmdAdd, CmdChange, CmdPhone, CmdAll, CmdAddBirthday, CmdShowBirthday, CmdBirthdays}

\* handler(args, book) for the handler registered under command
Handle(command, args, b, today) ==
    CASE command = CmdAdd -> add_contact(args, b)
      [] command = CmdChange -> change_contact(args, b)
      [] command = CmdPhone -> show_phone(args, b)
      [] command = CmdAll -> show_all(args, b)
      [] command = CmdAddBirthday -> add_birthday(args, b)
      [] command = CmdShowBirthday -> show_birthday(args, b)
      [] command = CmdBirthdays -> birthdays(args, b, today)

\* one iteration of the while loop on an input line: [exc, val, book, pc],
\* val the printed text (at most one)
Iteration(user_input, b, today) ==
    LET parsed == parse_input(user_input)
        command == parsed.cmd
        args == parsed.args
        Printed(text, next) ==
            [exc |-> "None", val |-> <<text>>, book |-> b, pc |-> next]
    IN  IF command \in ExitCommands THEN Printed(Text("Good bye!", <<>>), "exited")
        ELSE IF command = <<>>
            THEN [exc |-> "None", val |-> <<>>, book |-> b, pc |-> "running"]
        ELSE IF command = CmdHello
            THEN Printed(Text("How can I help you?", <<>>), "running")
        ELSE IF command = CmdHelp
            THEN Printed(Text("Available commands:", <<>>), "running")
        ELSE IF command \in HandlerCommands
            THEN LET out == Handle(command, args, b, today) IN
                 IF out.exc # "None"
                 THEN [exc |-> out.exc, val |-> <<>>, book |-> out.book, pc |-> "crashed"]
                 ELSE [exc |-> "None", val |-> <<out.val>>, book |-> out.book,
                       pc |-> "running"]
        ELSE Printed(Text("Invalid command. Type 'help' to see available commands.",
                          <<>>), "running")

LoopTodays == {MkDate(2023, 6, 10), MkDate(2024, 6, 10)}

InitLoop ==
    /\ book = <<>>
    /\ pc = "running"
    /\ last = NoCall

LoopIteration ==
    /\ pc = "running"
    /\ \E user_input \in Lines, today \in LoopTodays :
         \E it \in {Iteration(user_input, book, today)} :
           /\ book' = it.book
           /\ WithinBounds(book')
           /\ pc' = it.pc
           /\ last' = Last("loop", <<user_input>>, book, it.exc, it.val,
                           IF parse_input(user_input).cmd = CmdBirthdays
                           THEN <<today>> ELSE <<>>)

NextLoop == LoopIteration

SpecLoop == InitLoop /\ [][NextLoop]_vars

(***************************************************************************)
(* Properties of the upcoming-birthdays query (under SpecQuery).           *)
(***************************************************************************)
IsQuery == last.op = "get_upcoming_birthdays"

\* the record of the queried book stored under name
RecordOf(name) == last.before[KeyIndex(last.before, name)].rec

\* the entry emitted for name, if any
Emitted(name) == \E j \in 1..Len(last.ret) : last.ret[j].name = name

\* the first date on or after today with the day and month of bday
NextOccurrence(bday, today) ==
    LET Occurs(y) ==
            /\ ValidDate(y, bday.m, bday.d)
            /\ ~DateLess(MkDate(y, bday.m, bday.d), today)
        year == CHOOSE y \in today.y..(today.y + 8) :
                    Occurs(y) /\ \A z \in today.y..(y - 1) : ~Occurs(z)
    IN  MkDate(year, bday.m, bday.d)

InWindow(rec, today) ==
    /\ rec.birthday # <<>>
    /\ DaysBetween(NextOccurrence(rec.birthday[1], today), today) \in 0..7

\* C1: the query emits an entry for a record if and only if the record has a
\* birthday whose next occurrence on or after today is 0 to 7 days after
\* today, for every address book and every today.
C1_EmittedIffInWindow ==
    IsQuery =>
        \A i \in 1..Len(last.before) :
            Emitted(last.before[i].key) <=> InWindow(last.before[i].rec, last.today[1])

\* C2: every emitted congratulation date is the birthday occurrence when that
\* is Monday to Friday, the occurrence plus 2 days when it is a Saturday and
\* plus 1 day when it is a Sunday; it is never a Saturday or a Sunday and
\* never earlier than the occurrence.
C2_CongratulationDate ==
    IsQuery =>
        \A j \in 1..Len(last.ret) :
            LET e == last.ret[j]
                occurrence == NextOccurrence(RecordOf(e.name).birthday[1], last.today[1])
                expected == CASE weekday(occurrence) = 5 -> AddDays(occurrence, 2)
                              [] weekday(occurrence) = 6 -> AddDays(occurrence, 1)
                              [] OTHER -> occurrence
            IN  /\ e.birthday = strftime_iso(expected)
                /\ weekday(expected) \in 0..4
                /\ weekday(occurrence) >= 5 => weekday(expected) = 0
                /\ ~DateLess(expected, occurrence)

\* C2 witness: two entries are emitted, one for a Saturday birthday and one
\* for a Sunday birthday, both dated the Monday after.
C2_Witness ==
    /\ IsQuery
    /\ \E j, k \in 1..Len(last.ret) :
          /\ weekday(NextOccurrence(RecordOf(last.ret[j].name).birthday[1],
                                    last.today[1])) = 5
          /\ weekday(NextOccurrence(RecordOf(last.ret[k].name).birthday[1],
                                    last.today[1])) = 6
          /\ last.ret[j].birthday = last.ret[k].birthday

\* C9: the query completes without raising, for every book and every today.
C9_QueryNeverRaises == IsQuery => last.exc = "None"

(***************************************************************************)
(* Properties of the address book and its handlers (under Spec).           *)
(***************************************************************************)
\* the number of arguments each handler's verb requires
Required(op) ==
    CASE op = "add_contact" -> 2
      [] op = "change_contact" -> 3
      [] op = "show_phone" -> 1
      [] op = "show_all" -> 0
      [] op = "add_birthday" -> 2
      [] op = "show_birthday" -> 1
      [] op = "birthdays" -> 0

HandlerOps ==
    {"add_contact", "change_contact", "show_phone", "show_all", "add_birthday",
     "show_birthday", "birthdays"}

WrongArguments == Text("Give me name and phone please.", <<>>)
EnterUserName == Text("Enter user name.", <<>>)
ContactNotFound == Text("Contact not found. Please check the name.", <<>>)

ErrorMessages == {WrongArguments, EnterUserName, ContactNotFound}

\* the exception classes standing for the kinds of the error taxonomy
ValidationError == Phone(Short).exc
NotFoundError == add_birthday_body(<<Cid, B1>>, <<>>).exc

\* C3: delete(name) on a name that is not a key returns false and leaves the
\* book unchanged; on a key it returns true, removes exactly that entry,
\* keeps the others in order, and find(name) then returns none; it never
\* raises.
C3_Delete ==
    last.op = "delete" =>
        LET name == last.args[1]
            Others(e) == e.key # name
        IN  /\ last.exc = "None"
            /\ name \notin Keys(last.before) => (last.ret = FALSE /\ book = last.before)
            /\ name \in Keys(last.before) =>
                  /\ last.ret = TRUE
                  /\ Len(book) = Len(last.before) - 1
                  /\ book = SelectSeq(last.before, Others)
                  /\ find(book, name) = <<>>

\* C3 witness: one of two contacts was deleted.
C3_Witness ==
    /\ last.op = "delete"
    /\ last.ret = TRUE
    /\ Len(last.before) = 2
    /\ Len(book) = 1

\* the record edit_phone was called on
Target == RecordOf(last.args[1])

\* C4: edit_phone(old, new) with no phone equal to old fails with the
\* not-found kind of error, not the validation kind, whether or not new is
\* valid, and leaves the phone list as it was.
C4_EditPhoneNotFound ==
    (last.op = "edit_phone" /\ FirstPhone(Target, last.args[2]) = 0) =>
        /\ last.exc = NotFoundError
        /\ last.exc # ValidationError
        /\ book = last.before

\* C5: every handler called with a number of arguments other than
\* the number its verb requires returns the one wrong-arguments message and
\* leaves the book unchanged.
C5_UniformWrongArguments ==
    (last.op \in HandlerOps /\ Len(last.args) # Required(last.op)) =>
        /\ last.ret = WrongArguments
        /\ book = last.before

\* C5, amended: add, change and add-birthday with a wrong number of arguments
\* return the wrong-arguments message; phone and show-birthday without an
\* argument return the enter-user-name message and with surplus arguments
\* answer as for the first argument alone; all and birthdays answer as
\* without arguments; the book is unchanged in each case.
C5_ArgumentCount ==
    (last.op \in HandlerOps /\ Len(last.args) # Required(last.op)) =>
        /\ book = last.before
        /\ last.exc = "None"
        /\ last.op \in {"add_contact", "change_contact", "add_birthday"} =>
              last.ret = WrongArguments
        /\ (last.op \in {"show_phone", "show_birthday"} /\ last.args = <<>>) =>
              last.ret = EnterUserName
        /\ (last.op = "show_phone" /\ last.args # <<>>) =>
              last.ret = show_phone(<<last.args[1]>>, last.before).val
        /\ (last.op = "show_birthday" /\ last.args # <<>>) =>
              last.ret = show_birthday(<<last.args[1]>>, last.before).val
        /\ last.op = "show_all" => last.ret = show_all(<<>>, last.before).val
        /\ last.op = "birthdays" =>
              last.ret = birthdays(<<>>, last.before, last.today[1]).val

\* C5 witness: add with the name alone, on a book that holds contacts.
C5_Witness ==
    /\ last.op = "add_contact"
    /\ Len(last.args) = 1
    /\ last.ret = WrongArguments
    /\ book = last.before
    /\ book # <<>>

\* C7: every key equals the name of the record stored under it, no two
\* entries share a name, and add_record stores its record under its name in
\* place of any earlier record of that name, the other entries untouched.
C7_KeyIsName ==
    /\ \A i \in 1..Len(book) : book[i].key = book[i].rec.name
    /\ \A i, j \in 1..Len(book) : book[i].rec.name = book[j].rec.name => i = j
    /\ last.op = "add_record" =>
          LET record == last.ret[1] IN
          /\ find(book, record.name) = <<record>>
          /\ \A i \in 1..Len(last.before) :
                last.before[i].key # record.name =>
                    find(book, last.before[i].key) = <<last.before[i].rec>>
          /\ Keys(book) = Keys(last.before) \cup {record.name}

\* C7 witness: add_record replaced a record that held phones by a different
\* record of the same name, while another contact was in the book.
C7_Witness ==
    /\ last.op = "add_record"
    /\ Len(last.before) = 2
    /\ Len(book) = 2
    /\ last.args[1] \in Keys(last.before)
    /\ RecordOf(last.args[1]).phones # <<>>
    /\ RecordOf(last.args[1]) # last.ret[1]
    /\ last.ret[1].phones = <<>>

\* every phone held by a record of the book satisfies P
AllPhones(P(_)) ==
    \A i \in 1..Len(book) :
        \A j \in 1..Len(book[i].rec.phones) : P(book[i].rec.phones[j])

TenDecimalDigits(s) == Len(s) = 10 /\ \A i \in 1..Len(s) : IsDecimalChar(s[i])

\* C8: Phone(s) fails with the validation error for every s that is not 10
\* characters long or holds a character that is not a decimal digit, succeeds
\* with text s for every s of 10 decimal digits, and every phone held by a
\* record is 10 decimal digits.
C8_PhoneTenDecimalDigits ==
    /\ last.op = "Phone" =>
          LET s == last.args[1] IN
          IF TenDecimalDigits(s) THEN last.exc = "None" /\ last.ret = s
          ELSE last.exc = ValidationError
    /\ AllPhones(TenDecimalDigits)

RecordMutators == {"add_phone", "edit_phone", "remove_phone", "edit_birthday"}

\* C10: a failing add_phone, edit_phone, remove_phone or edit_birthday, and an
\* add, change or add-birthday handler that returns an error message, leave
\* the address book exactly as it was before the call.
C10_FailureIsAtomic ==
    /\ (last.op \in RecordMutators /\ last.exc # "None") => book = last.before
    /\ (last.op \in {"add_contact", "change_contact", "add_birthday"}
            /\ last.ret \in ErrorMessages) => book = last.before

\* C10 witness: add for a new name with an invalid phone failed and the book,
\* which holds another contact, has no record of that name.
C10_Witness ==
    /\ last.op = "add_contact"
    /\ Len(last.args) = 2
    /\ last.args[1] \notin Keys(last.before)
    /\ Name(last.args[1]).exc = "None"
    /\ last.args[2] = Short
    /\ last.ret = WrongArguments
    /\ last.before # <<>>
    /\ book = last.before

====
